---- MODULE Spec2Model ----
(***************************************************************************)
(* A model of GPXSimplifier (src/1_gpx_simplifier.py): the override-zone   *)
(* pre-pass, the stay segmenter, the stay simplifier, the moving-point     *)
(* selector and the loop of simplify_gpx_improved that wires them.         *)
(*                                                                         *)
(* Geometry.  A point is [id, x, y, time].  x and y are metres east and    *)
(* north of the south-west corner of the override box, on the local        *)
(* tangent plane; haversine_distance is the Euclidean distance of that     *)
(* plane, always compared in squared form, and a mean position is kept as  *)
(* the exact rational (sum / count), so every comparison the code makes is *)
(* made on integers.  Floating-point rounding is not modelled.             *)
(* id is the position of the point in the parsed input: it stands for the  *)
(* identity of the Python dict (id(p), `is`, and `in`, since every dict    *)
(* holds its own 'element').  time is NoTime for None.                     *)
(***************************************************************************)
EXTENDS Integers, Sequences, FiniteSets, TLC

VARIABLES
    self,                  \* the GPXSimplifier instance: its parameters
    input,                 \* what parse_gpx returned (kept for reference)
    pc,                    \* position in simplify_gpx_improved
    points,                \* the local `points` (reassigned after the pre-pass)
    zi,                    \* pre-pass loop: index of the next point
    processed_points,
    bupt_cluster,
    last_run,              \* argument of the latest _simplify_bupt_cluster call
    last_reduced,          \* and what it returned
    i, j,                  \* identify_stay_areas_improved: cursors (0-based)
    potential_stay_area,
    stay_areas,
    moving_segments,
    seg_log,               \* one record per closed candidate
    ri,                    \* routing loop: index of the next point (0-based)
    simplified_points,
    processed_areas,
    route_log,             \* one record per routed point
    last_area,             \* argument of the latest simplify_stay_area call
    last_simplified,       \* and what it returned
    run_counts             \* the point counts of the files written by the earlier runs

zoneVars  == <<zi, processed_points, bupt_cluster, last_run, last_reduced>>
segVars   == <<i, j, potential_stay_area, stay_areas, moving_segments, seg_log>>
routeVars == <<ri, simplified_points, processed_areas, route_log, last_area, last_simplified>>
vars == <<self, input, pc, points, zoneVars, segVars, routeVars, run_counts>>

----------------------------------------------------------------------------
(* Program constants *)

\* timestamp = None
NoTime == -1
\* datetime.min, the sort key of a point without a timestamp; 0 is also a
\* timestamp a point may carry
datetime_min == 0
\* bupt_area: max_lon and max_lat in metres from (min_lon, min_lat)
ZoneEast == 514
ZoneNorth == 756
\* while ... len(temp_moving) < 10
MaxLookahead == 10
\* if distance < 10
MicroThreshold == 10
\* return len(area_points) >= 10
MinStayCount == 10
\* is_turning_point(..., window=5)
window == 5

----------------------------------------------------------------------------
(* Sequences *)

Last(s) == s[Len(s)]

RECURSIVE SumX(_)
SumX(s) == IF s = <<>> THEN 0 ELSE Head(s).x + SumX(Tail(s))

RECURSIVE SumY(_)
SumY(s) == IF s = <<>> THEN 0 ELSE Head(s).y + SumY(Tail(s))

\* `p in s` on a list of dicts
In(p, s) == \E k \in DOMAIN s : s[k] = p

Ids(s) == {s[k].id : k \in DOMAIN s}

\* the key `p['time'] or datetime.min`
TimeOrMin(p) == IF p.time = NoTime THEN datetime_min ELSE p.time

\* list.sort / sorted with that key: stable, ascending
RECURSIVE InsertByTime(_, _)
InsertByTime(s, p) ==
    IF s = <<>> THEN <<p>>
    ELSE IF TimeOrMin(Last(s)) <= TimeOrMin(p) THEN Append(s, p)
    ELSE Append(InsertByTime(SubSeq(s, 1, Len(s) - 1), p), Last(s))

RECURSIVE SortByTime(_)
SortByTime(s) ==
    IF s = <<>> THEN <<>>
    ELSE InsertByTime(SortByTime(SubSeq(s, 1, Len(s) - 1)), Last(s))

\* the seen_ids loop: keep the first occurrence of every identity
RECURSIVE Dedup(_)
Dedup(s) ==
    IF s = <<>> THEN <<>>
    ELSE LET d == Dedup(SubSeq(s, 1, Len(s) - 1))
         IN  IF Last(s).id \in Ids(d) THEN d ELSE Append(d, Last(s))

RECURSIVE Filter(_, _)
Filter(s, keep) ==
    IF s = <<>> THEN <<>>
    ELSE IF Head(s).id \in keep THEN <<Head(s)>> \o Filter(Tail(s), keep)
    ELSE Filter(Tail(s), keep)

Take(s, n) == SubSeq(s, 1, IF n < Len(s) THEN n ELSE Len(s))

----------------------------------------------------------------------------
(* Geometry *)

\* the longitude test left out
is_in_bupt_area_LatitudeOnly(p) == 0 <= p.y /\ p.y <= ZoneNorth

is_in_bupt_area(p) == 0 <= p.y /\ p.y <= ZoneNorth /\ 0 <= p.x /\ p.x <= ZoneEast

\* haversine_distance(a, b) squared
Dist2(a, b) == (a.x - b.x) * (a.x - b.x) + (a.y - b.y) * (a.y - b.y)

\* the mean position of a non-empty list, as sums and a count
Center(s) == [sx |-> SumX(s), sy |-> SumY(s), n |-> Len(s)]

\* (n * haversine_distance(p, mean)) squared
CDist2(p, c) ==
    (c.n * p.x - c.sx) * (c.n * p.x - c.sx) + (c.n * p.y - c.sy) * (c.n * p.y - c.sy)

\* haversine_distance(p, mean) <= r
WithinOfCenter(p, c, r) == CDist2(p, c) <= r * r * c.n * c.n

\* The loop `if distance < min_distance` over the positions cand of s keeps
\* the first point at the least distance from the mean of s.  Points whose
\* exact distances are equal are ordered by the rounding of the floating-point
\* haversine, so any of them may be the one kept, except that of two points
\* with the same coordinates (the same computed distance) the first wins.
NearestChoices(s, cand) ==
    LET c == Center(s)
    IN  {k \in cand :
           /\ \A m \in cand : CDist2(s[k], c) <= CDist2(s[m], c)
           /\ \A m \in cand : (m < k) => (s[m].x # s[k].x \/ s[m].y # s[k].y)}

----------------------------------------------------------------------------
(* _simplify_bupt_cluster *)

\* sorted(bupt_cluster, key=lambda p: p['time']) compares None with a
\* datetime, and raises TypeError, as soon as one point has no timestamp
SortRaises(cluster) == \E k \in DOMAIN cluster : cluster[k].time = NoTime

BuptEnds(cluster) ==
    IF cluster[1].time # NoTime /\ Last(cluster).time # NoTime
    THEN LET sorted_cluster == SortByTime(cluster)
             s1 == <<cluster[1]>>
             s2 == IF In(sorted_cluster[1], s1) THEN s1
                   ELSE Append(s1, sorted_cluster[1])
         IN  IF In(Last(sorted_cluster), s2) THEN s2
             ELSE Append(s2, Last(sorted_cluster))
    ELSE IF In(Last(cluster), <<cluster[1]>>) THEN <<cluster[1]>>
         ELSE <<cluster[1], Last(cluster)>>

\* the selection after the `>= 1` and `>= 2` steps
BuptSelected(cluster, count) ==
    IF count >= 2 THEN BuptEnds(cluster)
    ELSE IF count >= 1 THEN <<cluster[1]>> ELSE <<>>

BuptRaises(cluster, count) ==
    /\ Len(cluster) > count
    /\ count >= 2
    /\ cluster[1].time # NoTime /\ Last(cluster).time # NoTime
    /\ SortRaises(cluster)

\* the positions the loop `if distance < min_distance and point not in
\* simplified` can end on, 0 when it ends on none
CentralChoices(cluster, count) ==
    IF Len(cluster) <= count \/ count < 3 \/ BuptRaises(cluster, count) THEN {0}
    ELSE LET sel  == BuptSelected(cluster, count)
             cand == {k \in DOMAIN cluster : ~In(cluster[k], sel)}
         IN  IF cand = {} THEN {0} ELSE NearestChoices(cluster, cand)

\* the result is [ok |-> TRUE, pts |-> list], or ok = FALSE for the TypeError;
\* central is the position of central_point (one of CentralChoices)
simplify_bupt_cluster(cluster, count, central) ==
    IF cluster = <<>> THEN [ok |-> TRUE, pts |-> <<>>]
    ELSE IF Len(cluster) <= count THEN [ok |-> TRUE, pts |-> cluster]
    ELSE IF BuptRaises(cluster, count) THEN [ok |-> FALSE, pts |-> <<>>]
    ELSE
      LET b == BuptSelected(cluster, count)
          c == IF count >= 3 /\ central > 0 THEN Append(b, cluster[central]) ELSE b
          final == Dedup(c)
          remaining == SortByTime(Filter(cluster, Ids(cluster) \ Ids(final)))
          padded == IF Len(final) < count
                    THEN final \o Take(remaining, count - Len(final))
                    ELSE final
      IN  [ok |-> TRUE,
           pts |-> IF padded # <<>> /\ padded[1].time # NoTime
                   THEN SortByTime(padded) ELSE padded]

----------------------------------------------------------------------------
(* is_stay_area, simplify_stay_area *)

\* a stay must last longer than min_stay_time
is_stay_area_StrictlyLonger(area_points) ==
    IF Len(area_points) < 2 THEN FALSE
    ELSE IF area_points[1].time # NoTime /\ Last(area_points).time # NoTime
    THEN Last(area_points).time - area_points[1].time > self.min_stay_time
    ELSE Len(area_points) >= MinStayCount

\* the duration taken in minutes
is_stay_area_InMinutes(area_points) ==
    IF Len(area_points) < 2 THEN FALSE
    ELSE IF area_points[1].time # NoTime /\ Last(area_points).time # NoTime
    THEN (Last(area_points).time - area_points[1].time) \div 60 >= self.min_stay_time
    ELSE Len(area_points) >= MinStayCount

is_stay_area(area_points) ==
    IF Len(area_points) < 2 THEN FALSE
    ELSE IF area_points[1].time # NoTime /\ Last(area_points).time # NoTime
    THEN Last(area_points).time - area_points[1].time >= self.min_stay_time
    ELSE Len(area_points) >= MinStayCount

\* the point before the middle one
MiddleIndex_OneBefore(area_points) == Len(area_points) \div 2

\* len(area_points) // 2, as a 1-based position
MiddleIndex(area_points) == (Len(area_points) \div 2) + 1

\* the positions center_point can end on when max_stay_points == 1, else {0}
CenterChoices(area_points, max_stay_points) ==
    IF Len(area_points) > max_stay_points /\ max_stay_points = 1
    THEN NearestChoices(area_points, DOMAIN area_points)
    ELSE {0}

\* center is the position of center_point (one of CenterChoices)
simplify_stay_area(area_points, max_stay_points, center) ==
    IF Len(area_points) <= max_stay_points THEN area_points
    ELSE IF max_stay_points = 1 THEN <<area_points[center]>>
    ELSE IF max_stay_points = 2 THEN <<area_points[1], Last(area_points)>>
    ELSE LET middle_count == IF max_stay_points - 2 < 1 THEN max_stay_points - 2 ELSE 1
             a == <<area_points[1]>>
             b == IF max_stay_points > 2 /\ middle_count > 0
                  THEN Append(a, area_points[MiddleIndex(area_points)])
                  ELSE a
         IN  Dedup(Append(b, Last(area_points)))

----------------------------------------------------------------------------
(* should_keep_moving_point, is_turning_point, calculate_bearing *)

\* the direction of calculate_bearing(p1, p2) as a vector <<east, north>>;
\* for coincident points the code returns 0.0, the bearing of due north
BearingVec(p1, p2) ==
    IF p1.x = p2.x /\ p1.y = p2.y THEN <<0, 1>>
    ELSE <<p2.x - p1.x, p2.y - p1.y>>

\* angle_diff > 90
AngleDiffOver30_Obtuse(v, w) == v[1] * w[1] + v[2] * w[2] < 0

\* angle_diff > 30 for the bearings of v and w: after the wrap into [0, 180]
\* angle_diff is the angle between v and w, and it exceeds 30 degrees iff
\* cos(angle) < sqrt(3)/2, i.e. v.w <= 0 or 4 (v.w)^2 < 3 |v|^2 |w|^2
AngleDiffOver30(v, w) ==
    LET dot == v[1] * w[1] + v[2] * w[2]
        vv  == v[1] * v[1] + v[2] * v[2]
        ww  == w[1] * w[1] + w[2] * w[2]
    IN  dot <= 0 \/ 4 * dot * dot < 3 * vv * ww

\* `point_index <= window`: one more point counts as an end point
is_turning_point_InclusiveWindow(point, all_points, point_index) ==
    IF point_index < 0 \/ point_index >= Len(all_points) THEN FALSE
    ELSE IF point_index <= window \/ point_index >= Len(all_points) - window THEN TRUE
    ELSE LET prev_point == all_points[point_index - window + 1]
             next_point == all_points[point_index + window + 1]
         IN  AngleDiffOver30(BearingVec(prev_point, point), BearingVec(point, next_point))

\* point_index is 0-based, -1 when the point is not found
is_turning_point(point, all_points, point_index) ==
    IF point_index < 0 \/ point_index >= Len(all_points) THEN FALSE
    ELSE IF point_index < window \/ point_index >= Len(all_points) - window THEN TRUE
    ELSE LET prev_point == all_points[point_index - window + 1]
             next_point == all_points[point_index + window + 1]
         IN  AngleDiffOver30(BearingVec(prev_point, point), BearingVec(point, next_point))

\* next((i for i, p in enumerate(all_points) if p is point), -1)
IndexOf(point, all_points) ==
    LET hits == {k \in DOMAIN all_points : all_points[k].id = point.id}
    IN  IF hits = {} THEN -1
        ELSE (CHOOSE k \in hits : \A m \in hits : k <= m) - 1

\* distance > self.moving_threshold
should_keep_moving_point_Beyond(point, all_points, simplified) ==
    IF simplified = <<>> THEN TRUE
    ELSE IF Dist2(point, Last(simplified)) > self.moving_threshold * self.moving_threshold
    THEN TRUE
    ELSE is_turning_point(point, all_points, IndexOf(point, all_points))

should_keep_moving_point(point, all_points, simplified) ==
    IF simplified = <<>> THEN TRUE
    ELSE IF Dist2(point, Last(simplified)) >= self.moving_threshold * self.moving_threshold
    THEN TRUE
    ELSE is_turning_point(point, all_points, IndexOf(point, all_points))

----------------------------------------------------------------------------
(* simplify_gpx_improved: the override-zone pre-pass *)

\* if len(points) == 0: return
Start ==
    /\ pc = "start"
    /\ pc' = IF Len(points) = 0 THEN "returned" ELSE "zone"
    /\ UNCHANGED <<self, run_counts, input, points, zoneVars, segVars, routeVars>>

\* one iteration of `for point in points`
ZoneStep ==
    /\ pc = "zone"
    /\ zi <= Len(points)
    /\ \E central \in CentralChoices(bupt_cluster, self.bupt_simplified_points_count) :
       LET point == points[zi]
           r     == simplify_bupt_cluster(bupt_cluster, self.bupt_simplified_points_count, central)
       IN  IF is_in_bupt_area(point)
           THEN /\ bupt_cluster' = Append(bupt_cluster, point)
                /\ zi' = zi + 1
                /\ UNCHANGED <<pc, processed_points, last_run, last_reduced>>
           ELSE IF bupt_cluster = <<>>
           THEN /\ processed_points' = Append(processed_points, point)
                /\ zi' = zi + 1
                /\ UNCHANGED <<pc, bupt_cluster, last_run, last_reduced>>
           ELSE IF r.ok
           THEN /\ processed_points' = Append(processed_points \o r.pts, point)
                /\ bupt_cluster' = <<>>
                /\ last_run' = bupt_cluster
                /\ last_reduced' = r.pts
                /\ zi' = zi + 1
                /\ UNCHANGED pc
           ELSE /\ pc' = "raised"
                /\ last_run' = bupt_cluster
                /\ last_reduced' = <<>>
                /\ UNCHANGED <<zi, processed_points, bupt_cluster>>
    /\ UNCHANGED <<self, run_counts, input, points, segVars, routeVars>>

\* after the loop: the cluster at the end of the file, then
\* points = processed_points and the call of identify_stay_areas_improved
ZoneEnd ==
    /\ pc = "zone"
    /\ zi > Len(points)
    /\ \E central \in CentralChoices(bupt_cluster, self.bupt_simplified_points_count) :
       LET r == simplify_bupt_cluster(bupt_cluster, self.bupt_simplified_points_count, central)
       IN  IF bupt_cluster = <<>>
           THEN /\ points' = processed_points
                /\ pc' = "seg_outer"
                /\ UNCHANGED <<processed_points, last_run, last_reduced>>
           ELSE IF r.ok
           THEN /\ processed_points' = processed_points \o r.pts
                /\ points' = processed_points \o r.pts
                /\ last_run' = bupt_cluster
                /\ last_reduced' = r.pts
                /\ pc' = "seg_outer"
           ELSE /\ pc' = "raised"
                /\ last_run' = bupt_cluster
                /\ last_reduced' = <<>>
                /\ UNCHANGED <<points, processed_points>>
    /\ UNCHANGED <<self, run_counts, input, zi, bupt_cluster, segVars, routeVars>>

----------------------------------------------------------------------------
(* identify_stay_areas_improved *)

\* 0-based indexing of the Python lists
At(s, k) == s[k + 1]

\* points[a:b]
Slice(s, a, b) == SubSeq(s, a + 1, b)

\* the loop bounded by `len(temp_moving) <= 10`: one point more is tested
ReturnIndex_OneMore(pts, from, c, r) ==
    LET tested == {k \in from .. (from + MaxLookahead) : k < Len(pts)}
        back   == {k \in tested : WithinOfCenter(At(pts, k), c, r)}
    IN  IF back = {} THEN -1 ELSE CHOOSE k \in back : \A m \in back : k <= m

\* the excursion loop `while k < len(points) and len(temp_moving) < 10`,
\* against the mean frozen when it starts: the index of the first point that
\* is back within stay_radius, or -1 when the loop ends without one
ReturnIndex(pts, from, c, r) ==
    LET tested == {k \in from .. (from + MaxLookahead - 1) : k < Len(pts)}
        back   == {k \in tested : WithinOfCenter(At(pts, k), c, r)}
    IN  IF back = {} THEN -1 ELSE CHOOSE k \in back : \A m \in back : k <= m

\* the walk begun at the point after the start of the candidate
WalkEnd_FromNext(pts, from) ==
    LET stop == {k \in (from + 1) .. (Len(pts) - 1) :
                   k >= Len(pts) - 1 \/ Dist2(At(pts, k), At(pts, k + 1)) < MicroThreshold * MicroThreshold}
    IN  IF stop = {} THEN from ELSE CHOOSE k \in stop : \A m \in stop : k <= m

\* the walk `while i < len(points) - 1` of an invalid candidate: the first
\* index from `from` on whose next point is closer than 10 m, else the last
WalkEnd(pts, from) ==
    LET stop == {k \in from .. (Len(pts) - 1) :
                   k >= Len(pts) - 1 \/ Dist2(At(pts, k), At(pts, k + 1)) < MicroThreshold * MicroThreshold}
    IN  CHOOSE k \in stop : \A m \in stop : k <= m

\* points[moving_start:i]: the segment without its last point
MovingSegmentOf_ExclusiveEnd(pts, moving_start, end) == Slice(pts, moving_start, end)

\* points[moving_start+1:i+1]: the segment without its first point
MovingSegmentOf_FromNext(pts, moving_start, end) == Slice(pts, moving_start + 1, end + 1)

\* points[moving_start:i+1]
MovingSegmentOf(pts, moving_start, end) == Slice(pts, moving_start, end + 1)

\* `while i < len(points)`: a new candidate starts at points[i]
StartCandidate ==
    /\ pc = "seg_outer"
    /\ i < Len(points)
    /\ potential_stay_area' = <<At(points, i)>>
    /\ j' = i + 1
    /\ pc' = "seg_scan"
    /\ UNCHANGED <<self, run_counts, input, points, zoneVars, i, stay_areas, moving_segments, seg_log, routeVars>>

\* one iteration of `while j < len(points)`
ScanStep ==
    /\ pc = "seg_scan"
    /\ j < Len(points)
    /\ LET next_point == At(points, j)
           c == Center(potential_stay_area)
           k == ReturnIndex(points, j, c, self.stay_radius)
       IN  IF WithinOfCenter(next_point, c, self.stay_radius)
           THEN /\ potential_stay_area' = Append(potential_stay_area, next_point)
                /\ j' = j + 1
                /\ UNCHANGED pc
           ELSE IF k >= 0
           THEN /\ potential_stay_area' = potential_stay_area \o Slice(points, j, k + 1)
                /\ j' = k + 1
                /\ UNCHANGED pc
           ELSE /\ pc' = "seg_classify"
                /\ UNCHANGED <<j, potential_stay_area>>
    /\ UNCHANGED <<self, run_counts, input, points, zoneVars, i, stay_areas, moving_segments, seg_log, routeVars>>

\* Classify without the `i += 1` that ends the invalid branch
Classify_NoAdvance ==
    /\ pc = "seg_classify" \/ (pc = "seg_scan" /\ j >= Len(points))
    /\ LET valid == is_stay_area(potential_stay_area)
           p == WalkEnd(points, i)
       IN  /\ IF valid
              THEN /\ stay_areas' = Append(stay_areas, potential_stay_area)
                   /\ i' = j
                   /\ UNCHANGED moving_segments
              ELSE /\ moving_segments' =
                        IF p > i THEN Append(moving_segments, MovingSegmentOf(points, i, p))
                        ELSE moving_segments
                   /\ i' = p
                   /\ UNCHANGED stay_areas
           /\ seg_log' = Append(seg_log,
                             [start |-> i, stop |-> j, area |-> potential_stay_area,
                              valid |-> valid, walk_end |-> IF valid THEN -1 ELSE p])
    /\ pc' = "seg_outer"
    /\ UNCHANGED <<self, run_counts, input, points, zoneVars, j, potential_stay_area, routeVars>>

\* the candidate is closed (the scan broke off or reached the end):
\* `if self.is_stay_area(potential_stay_area)` and its two branches
Classify ==
    /\ pc = "seg_classify" \/ (pc = "seg_scan" /\ j >= Len(points))
    /\ LET valid == is_stay_area(potential_stay_area)
           p == WalkEnd(points, i)
       IN  /\ IF valid
              THEN /\ stay_areas' = Append(stay_areas, potential_stay_area)
                   /\ i' = j
                   /\ UNCHANGED moving_segments
              ELSE /\ moving_segments' =
                        IF p > i THEN Append(moving_segments, MovingSegmentOf(points, i, p))
                        ELSE moving_segments
                   /\ i' = p + 1
                   /\ UNCHANGED stay_areas
           /\ seg_log' = Append(seg_log,
                             [start |-> i, stop |-> j, area |-> potential_stay_area,
                              valid |-> valid, walk_end |-> IF valid THEN -1 ELSE p])
    /\ pc' = "seg_outer"
    /\ UNCHANGED <<self, run_counts, input, points, zoneVars, j, potential_stay_area, routeVars>>

\* `return stay_areas, moving_segments`
SegmentReturn ==
    /\ pc = "seg_outer"
    /\ i >= Len(points)
    /\ pc' = "route"
    /\ UNCHANGED <<self, run_counts, input, points, zoneVars, segVars, routeVars>>

----------------------------------------------------------------------------
(* simplify_gpx_improved: routing and merge *)

\* only the first point of every area is marked
StayPointsSet_FirstOnly(areas) == {areas[a][1].id : a \in DOMAIN areas}

\* stay_points_set
StayPointsSet(areas) == UNION {Ids(areas[a]) : a \in DOMAIN areas}

\* without the processed_areas test
AreaToProcess_EveryMember(point, areas, processed) ==
    LET hits == {a \in DOMAIN areas : In(point, areas[a])}
    IN  IF hits = {} THEN 0 ELSE CHOOSE a \in hits : \A b \in hits : a <= b

\* `for area in stay_areas: if point in area and id(area[0]) not in
\* processed_areas`: the position of the first such area, 0 when none
AreaToProcess(point, areas, processed) ==
    LET hits == {a \in DOMAIN areas : In(point, areas[a]) /\ areas[a][1].id \notin processed}
    IN  IF hits = {} THEN 0 ELSE CHOOSE a \in hits : \A b \in hits : a <= b

\* the outcomes of the center_point loop in the call the next routing step makes
RouteChoices ==
    LET a == AreaToProcess(At(points, ri), stay_areas, processed_areas)
    IN  IF a > 0 THEN CenterChoices(stay_areas[a], self.max_stay_points) ELSE {0}

\* one iteration of `for point in points`
RouteStep ==
    /\ pc = "route"
    /\ ri < Len(points)
    /\ \E center \in RouteChoices :
       LET point == At(points, ri)
           a == AreaToProcess(point, stay_areas, processed_areas)
           simplified_area == simplify_stay_area(stay_areas[a], self.max_stay_points, center)
           keep == should_keep_moving_point(point, points, simplified_points)
       IN  IF point.id \in StayPointsSet(stay_areas)
           THEN /\ IF a > 0
                   THEN /\ simplified_points' = simplified_points \o simplified_area
                        /\ processed_areas' = processed_areas \cup {stay_areas[a][1].id}
                        /\ last_area' = stay_areas[a]
                        /\ last_simplified' = simplified_area
                   ELSE UNCHANGED <<simplified_points, processed_areas, last_area, last_simplified>>
                /\ route_log' = Append(route_log,
                                  [id |-> point.id, by |-> "stay", area |-> a, kept |-> FALSE])
           ELSE /\ simplified_points' =
                       IF keep THEN Append(simplified_points, point) ELSE simplified_points
                /\ route_log' = Append(route_log,
                                  [id |-> point.id, by |-> "moving", area |-> 0, kept |-> keep])
                /\ UNCHANGED <<processed_areas, last_area, last_simplified>>
    /\ ri' = ri + 1
    /\ UNCHANGED <<self, run_counts, input, pc, points, zoneVars, segVars>>

\* the sort done whether or not the first kept point has a timestamp
Merge_AlwaysSort ==
    /\ pc = "route"
    /\ ri >= Len(points)
    /\ simplified_points' = SortByTime(simplified_points)
    /\ pc' = "done"
    /\ UNCHANGED <<self, run_counts, input, points, zoneVars, segVars, ri, processed_areas, route_log,
                   last_area, last_simplified>>

\* after the loop: the sort by time when the first kept point has one
Merge ==
    /\ pc = "route"
    /\ ri >= Len(points)
    /\ simplified_points' =
          IF simplified_points # <<>> /\ simplified_points[1].time # NoTime
          THEN SortByTime(simplified_points) ELSE simplified_points
    /\ pc' = "done"
    /\ UNCHANGED <<self, run_counts, input, points, zoneVars, segVars, ri, processed_areas, route_log,
                   last_area, last_simplified>>

Next ==
    \/ Start
    \/ ZoneStep
    \/ ZoneEnd
    \/ StartCandidate
    \/ ScanStep
    \/ Classify
    \/ SegmentReturn
    \/ RouteStep
    \/ Merge

----------------------------------------------------------------------------
(* A second run, on the file the first run wrote *)

\* create_simplified_gpx: one trkpt per point, with its lat and lon and, when
\* it has one, its time
create_simplified_gpx(pts) ==
    [k \in 1 .. Len(pts) |-> [x |-> pts[k].x, y |-> pts[k].y, time |-> pts[k].time]]

\* parse_gpx: fresh points, in the order of the file
parse_gpx(file) ==
    [k \in 1 .. Len(file) |-> [id |-> k, x |-> file[k].x, y |-> file[k].y, time |-> file[k].time]]

\* simplify_gpx_improved called on the output file of the run that has ended
Rerun ==
    /\ pc = "done"
    /\ run_counts = <<>>
    /\ run_counts' = Append(run_counts, Len(create_simplified_gpx(simplified_points)))
    /\ input' = parse_gpx(create_simplified_gpx(simplified_points))
    /\ points' = input'
    /\ pc' = "start"
    /\ zi' = 1
    /\ processed_points' = <<>>
    /\ bupt_cluster' = <<>>
    /\ last_run' = <<>>
    /\ last_reduced' = <<>>
    /\ i' = 0
    /\ j' = 0
    /\ potential_stay_area' = <<>>
    /\ stay_areas' = <<>>
    /\ moving_segments' = <<>>
    /\ seg_log' = <<>>
    /\ ri' = 0
    /\ simplified_points' = <<>>
    /\ processed_areas' = {}
    /\ route_log' = <<>>
    /\ last_area' = <<>>
    /\ last_simplified' = <<>>
    /\ UNCHANGED self

NextRerun ==
    \/ Next
    \/ Rerun

----------------------------------------------------------------------------
(* Inputs *)

MaxLen == 3
MaxTime == 2
MaxBlocks == 3

\* the list parse_gpx builds from coordinates and times: one dict per trkpt
WithIds(s) == [k \in 1 .. Len(s) |-> [id |-> k, x |-> s[k].x, y |-> s[k].y, time |-> s[k].time]]

SeqsUpTo(A, n) == UNION {[1 .. m -> A] : m \in 0 .. n}

\* positions on the west-east axis: InZone is the south-west corner of the
\* box; NearA is farther than MicroThreshold from SiteA and within the
\* model's stay_radius of it; SiteB is far from all of them.  Timestamps
\* start at 1, later than datetime.min
InZone == [x |-> 0, y |-> 0]
SiteA  == [x |-> -30, y |-> 0]
NearA  == [x |-> -18, y |-> 0]
SiteB  == [x |-> -100, y |-> 0]

At3(pos, t) == [x |-> pos.x, y |-> pos.y, time |-> t]

\* every track of at most MaxLen points outside the box, each at one of
\* three sites, without a timestamp or with one of two
ShortAlphabet == {At3(pos, t) : pos \in {SiteA, NearA, SiteB}, t \in {NoTime, 1, 1 + MaxTime}}

ShortInputs == {WithIds(s) : s \in SeqsUpTo(ShortAlphabet, MaxLen)}

\* every track of at most MaxLen points inside the box or at SiteB, with
\* any timestamps in any order
ZoneAlphabet == {At3(pos, t) : pos \in {InZone, SiteB}, t \in {NoTime} \cup (1 .. 1 + MaxTime)}

ZoneInputs == {WithIds(s) : s \in SeqsUpTo(ZoneAlphabet, MaxLen)}

\* a block is n points at one position, the k-th with time t0 + k * dt
\* (or none when t0 is NoTime)
Block(pos, t0, dt, n) ==
    [k \in 1 .. n |-> At3(pos, IF t0 = NoTime THEN NoTime ELSE t0 + (k - 1) * dt)]

BlockAlphabet ==
    { Block(InZone, 1, 1, 3),
      Block(SiteA, NoTime, 0, 10),
      Block(SiteA, 1, 1, 5),
      Block(NearA, NoTime, 0, 1),
      Block(SiteB, NoTime, 0, 1),
      Block(SiteB, 1, 0, 12) }

RECURSIVE Concat(_)
Concat(blocks) == IF blocks = <<>> THEN <<>> ELSE Head(blocks) \o Concat(Tail(blocks))

\* tracks made of at most MaxBlocks blocks
BlockInputs == {WithIds(Concat(b)) : b \in SeqsUpTo(BlockAlphabet, MaxBlocks)}

\* the instances: stay_radius, min_stay_time and moving_threshold as given,
\* max_stay_points and bupt_simplified_points_count from the sets given
Instances(radius, min_time, msp, threshold, count) ==
    [stay_radius : {radius}, min_stay_time : {min_time}, max_stay_points : msp,
     moving_threshold : {threshold}, bupt_simplified_points_count : count]

\* small distances for the small tracks; min_stay_time is the one time
\* difference the short tracks have
Params(msp, count) == Instances(15, MaxTime, msp, 25, count)

InitWith(inputs, configs) ==
    /\ self \in configs
    /\ input \in inputs
    /\ run_counts = <<>>
    /\ points = input
    /\ pc = "start"
    /\ zi = 1
    /\ processed_points = <<>>
    /\ bupt_cluster = <<>>
    /\ last_run = <<>>
    /\ last_reduced = <<>>
    /\ i = 0
    /\ j = 0
    /\ potential_stay_area = <<>>
    /\ stay_areas = <<>>
    /\ moving_segments = <<>>
    /\ seg_log = <<>>
    /\ ri = 0
    /\ simplified_points = <<>>
    /\ processed_areas = {}
    /\ route_log = <<>>
    /\ last_area = <<>>
    /\ last_simplified = <<>>

\* the pipeline on short tracks and on tracks of blocks
Init ==
    \/ InitWith(ShortInputs, Params({1, 2}, {2}))
    \/ InitWith(BlockInputs, Params({3, 4}, {2}))

Spec == Init /\ [][Next]_vars

\* the steps of identify_stay_areas_improved
Segmenter == StartCandidate \/ ScanStep \/ Classify \/ SegmentReturn

\* tracks for the runs under fairness: short ones over four points that
\* make valid and invalid candidates, and tracks of at most MaxFairBlocks blocks
FairAlphabet == {At3(SiteA, 1), At3(SiteA, 1 + MaxTime), At3(NearA, NoTime), At3(SiteB, 1)}

MaxFairBlocks == 2

InitFair ==
    \/ InitWith({WithIds(s) : s \in SeqsUpTo(FairAlphabet, MaxLen)}, Params({2}, {2}))
    \/ InitWith({WithIds(Concat(b)) : b \in SeqsUpTo(BlockAlphabet, MaxFairBlocks)},
                Params({3}, {2}))

\* the segmenter takes its next step whenever it has one: the program is
\* sequential and keeps running
SpecFair == InitFair /\ [][Next]_vars /\ WF_vars(Segmenter)

\* the pipeline on tracks in and around the override box
InitZone == InitWith(ZoneInputs, Params({2}, {1, 2, 3}))

SpecZone == InitZone /\ [][Next]_vars

----------------------------------------------------------------------------
(* Scenario tracks *)

\* a stationary cluster: ClusterLen points on the corners of a 3 m x 4 m
\* rectangle west of the box (no two farther apart than 5 m), the corners
\* repeating with period 2; timestamps in order, StaySpan from first to last,
\* `gap` apart up to point m and from point m + 1 on
ClusterLen == 20
StaySpan == 400

Corners == {[x |-> -10, y |-> 0], [x |-> -7, y |-> 0], [x |-> -10, y |-> 4], [x |-> -7, y |-> 4]}

ClusterTrack(c1, c2, gap, m) ==
    [k \in 1 .. ClusterLen |->
        At3(IF k % 2 = 1 THEN c1 ELSE c2,
            IF k <= m THEN 1 + (k - 1) * gap ELSE 1 + StaySpan - (ClusterLen - k) * gap)]

ClusterInputs ==
    {WithIds(ClusterTrack(c1, c2, gap, m)) :
        c1 \in Corners, c2 \in Corners, gap \in {0, 1, 20}, m \in {1, 10, ClusterLen - 1}}

InitCluster ==
    \/ InitWith(ClusterInputs, Instances(5, 300, {2}, 200, {2}))
    \/ InitWith(ClusterInputs, Instances(100, 300, {2}, 200, {2}))

SpecCluster == InitCluster /\ [][Next]_vars

\* a straight line: LineLen points 10 m apart (5 km), from `from` in the
\* direction `step`, with no timestamps (dt = NoTime) or dt seconds apart
LineLen == 501

LineTrack(from, step, dt) ==
    [k \in 1 .. LineLen |->
        [x |-> from.x + (k - 1) * step[1], y |-> from.y + (k - 1) * step[2],
         time |-> IF dt = NoTime THEN NoTime ELSE 1 + (k - 1) * dt]]

\* south-west of the box, heading away from it or past it
LineInputs ==
    {WithIds(LineTrack([x |-> -10, y |-> -10], step, dt)) :
        step \in {<<10, 0>>, <<-10, 0>>, <<0, -10>>, <<-6, -8>>, <<8, -6>>},
        dt \in {NoTime, 0, 1}}

InitLine == InitWith(LineInputs, Instances(52, 600, {2}, 200, {2}))

SpecLine == InitLine /\ [][Next]_vars

\* a track with one right-angle turn: from `o`, `before` steps of `a`, then
\* `after` steps of `b`; the turn is at the 0-based index `before`
CornerTrack(o, a, b, before, after, dt) ==
    [k \in 1 .. (before + after + 1) |->
        [x |-> o.x + (IF k - 1 <= before THEN (k - 1) * a[1]
                      ELSE before * a[1] + (k - 1 - before) * b[1]),
         y |-> o.y + (IF k - 1 <= before THEN (k - 1) * a[2]
                      ELSE before * a[2] + (k - 1 - before) * b[2]),
         time |-> IF dt = NoTime THEN NoTime ELSE 1 + (k - 1) * dt]]

MaxLeg == 12

\* south-west of the box, or wholly inside it
CornerInputs ==
    {WithIds(CornerTrack(o, a, b, before, after, dt)) :
        o \in {[x |-> -20, y |-> -20], [x |-> 400, y |-> 400]},
        a \in {<<-10, 0>>, <<-30, 0>>}, b \in {<<0, -10>>, <<0, -30>>},
        before \in {window, window + 1, MaxLeg}, after \in {window, MaxLeg},
        dt \in {NoTime, 1, 60}}

InitCorner == InitWith(CornerInputs, Instances(100, 600, {2}, 200, {2}))

SpecCorner == InitCorner /\ [][Next]_vars

\* a run of RunLen points inside the box, 12 m apart, with any timestamps in
\* any order, alone or with a point at SiteB before it, after it, or both
RunLen == 4

ZoneRun(times) ==
    [k \in 1 .. RunLen |-> [x |-> 12 * (k - 1), y |-> 0, time |-> times[k]]]

Around == {<<>>, <<At3(SiteB, NoTime)>>, <<At3(SiteB, 2)>>}

ZoneRunInputs ==
    {WithIds(pre \o ZoneRun(times) \o post) :
        pre \in Around, post \in {<<>>, <<At3(SiteB, 2)>>},
        times \in [1 .. RunLen -> {NoTime} \cup (1 .. 1 + MaxTime)]}

InitZoneRun == InitWith(ZoneRunInputs, Params({2}, {2, 3}))

SpecZoneRun == InitZoneRun /\ [][Next]_vars

\* two runs in a row, on the short tracks, the tracks of blocks and the
\* tracks in and around the box
InitRerun ==
    \/ InitWith(ShortInputs, Params({1, 2}, {2}))
    \/ InitWith(BlockInputs, Params({3}, {2}))
    \/ InitWith(ZoneRunInputs, Params({2}, {2, 3}))

SpecRerun == InitRerun /\ [][NextRerun]_vars

\* tracks with one bend of a little less than 30 degrees (29.7), a little
\* more (30.3) or 90 degrees, 12 m steps before it, south-west of the box
BendInputs ==
    {WithIds(CornerTrack([x |-> -20, y |-> -20], <<-12, 0>>, b, before, after, dt)) :
        b \in {<<-7, -4>>, <<-12, -7>>, <<0, -12>>},
        before \in {window, MaxLeg}, after \in {window, MaxLeg}, dt \in {NoTime, 1}}

\* the tracks of Init and the tracks with a bend
InitMoving ==
    \/ Init
    \/ InitWith(BendInputs, Instances(5, 600, {2}, 50, {2}))

SpecMoving == InitMoving /\ [][Next]_vars

----------------------------------------------------------------------------
(* Properties *)

targetCount == self.bupt_simplified_points_count

AllTimed(s) == \A k \in DOMAIN s : s[k].time # NoTime

Times(s) == {s[k].time : k \in DOMAIN s}

\* C1: a run of more than targetCount points inside the box (targetCount >= 1),
\* whatever its timestamps, is reduced to at most targetCount points.
C1_ZoneBound ==
    (pc # "raised" /\ targetCount >= 1 /\ Len(last_run) > targetCount)
        => Len(last_reduced) <= targetCount

\* C2: a run of more than targetCount points inside the box, all with
\* timestamps, targetCount >= 2, is reduced to exactly targetCount points,
\* among them a point of the earliest and a point of the latest time.
C2_ScenarioD ==
    (pc # "raised" /\ targetCount >= 2 /\ Len(last_run) > targetCount /\ AllTimed(last_run))
        => /\ Len(last_reduced) = targetCount
           /\ \A t \in Times(last_run) : \E u \in Times(last_reduced) : u <= t
           /\ \A t \in Times(last_run) : \E u \in Times(last_reduced) : u >= t


\* the output is made of input points, unchanged
FromInput(s) == \A k \in DOMAIN s : s[k].id \in DOMAIN input /\ input[s[k].id] = s[k]

\* no identity twice
NoDuplicates(s) == \A k, m \in DOMAIN s : s[k].id = s[m].id => k = m

\* C3: every point of simplified_points is an input point with its
\* coordinates and timestamp unchanged, and no input point is in it twice.
C3_OutputIsSelection == FromInput(simplified_points) /\ NoDuplicates(simplified_points)

Routed(by, kept) == \E k \in DOMAIN route_log : route_log[k].by = by /\ route_log[k].kept = kept

\* a finished run that thinned a run in the box, simplified a stay area, and
\* both kept and dropped moving points
C3_Witness ==
    /\ pc = "done"
    /\ Len(last_reduced) < Len(last_run)
    /\ Len(last_simplified) < Len(last_area)
    /\ Routed("moving", TRUE)
    /\ Routed("moving", FALSE)
    /\ Len(simplified_points) > 3

AreasOf(point) == {a \in DOMAIN stay_areas : In(point, stay_areas[a])}

\* the positions (1-based, in the filtered sequence) of the members of area a
PositionsOf(a) == {k \in DOMAIN points : In(points[k], stay_areas[a])}

MinOf(S) == CHOOSE k \in S : \A m \in S : k <= m

\* the routing steps at which simplify_stay_area was called for area a
CallsFor(a) == {k \in DOMAIN route_log : route_log[k].area = a}

\* C4: every point of the filtered sequence reached so far went either to the
\* stay branch, as a member of exactly one stay area, or to
\* should_keep_moving_point, as a member of none; and simplify_stay_area has
\* been called for an area exactly once, at its first member, as soon as the
\* scan has reached that member.
C4_Routing ==
    pc \in {"route", "done"} =>
        /\ Len(route_log) = ri
        /\ \A k \in DOMAIN route_log :
              /\ route_log[k].id = points[k].id
              /\ \/ route_log[k].by = "stay" /\ Cardinality(AreasOf(points[k])) = 1
                 \/ route_log[k].by = "moving" /\ AreasOf(points[k]) = {}
        /\ \A a \in DOMAIN stay_areas :
              CallsFor(a) = IF MinOf(PositionsOf(a)) <= ri THEN {MinOf(PositionsOf(a))} ELSE {}

\* a finished run with two stay areas of several points and moving points
C4_Witness ==
    /\ pc = "done"
    /\ Len(stay_areas) >= 2
    /\ \A a \in DOMAIN stay_areas : Len(stay_areas[a]) >= 2
    /\ Routed("moving", TRUE)
    /\ Routed("moving", FALSE)

\* how many returned stay areas and moving segments hold the point
Memberships(point) ==
    Cardinality(AreasOf(point))
      + Cardinality({m \in DOMAIN moving_segments : In(point, moving_segments[m])})

\* C5: when the segmenter returns, every point is in exactly one stay area or
\* exactly one moving segment.
C5_Partition ==
    pc = "route" => \A k \in DOMAIN points : Memberships(points[k]) = 1

\* the starts of the invalid candidates whose walk ended where it began: the
\* next point is closer than 10 m, or there is no next point
LoneStarts ==
    {seg_log[e].start + 1 : e \in {e \in DOMAIN seg_log :
                                     ~seg_log[e].valid /\ seg_log[e].walk_end = seg_log[e].start}}

\* C5 as amended: no point is in two of the returned stay areas and moving
\* segments, and the points in none of them are exactly the starts of the
\* invalid candidates whose walk ended at the start itself.
C5_PartitionButLoneStarts ==
    pc = "route" =>
        \A k \in DOMAIN points :
            Memberships(points[k]) = IF k \in LoneStarts THEN 0 ELSE 1

\* the segmenter returned a stay area, a moving segment and left a point out
C5_Witness ==
    /\ pc = "route"
    /\ stay_areas # <<>>
    /\ moving_segments # <<>>
    /\ LoneStarts # {}


OutsideZone(s) == \A k \in DOMAIN s : ~is_in_bupt_area(s[k])

\* Scenario A: ClusterLen points outside the box, in chronological order,
\* StaySpan seconds from the first to the last, pairwise within 5 m, with
\* min_stay_time = 300, max_stay_points = 2 and stay_radius >= 5
IsScenarioA ==
    /\ Len(input) = ClusterLen
    /\ OutsideZone(input)
    /\ AllTimed(input)
    /\ \A k, m \in DOMAIN input : k < m => input[k].time <= input[m].time
    /\ Last(input).time - input[1].time = StaySpan
    /\ \A k, m \in DOMAIN input : Dist2(input[k], input[m]) <= 5 * 5
    /\ self.min_stay_time = 300
    /\ self.max_stay_points = 2
    /\ self.stay_radius >= 5

\* C6: in Scenario A the output is exactly two points, the earliest and the
\* latest of the input.
C6_ScenarioA ==
    (pc = "done" /\ IsScenarioA) => simplified_points = <<input[1], Last(input)>>

\* a finished Scenario A run with stay_radius exactly 5 whose points are not
\* all at one place, the one stay area holding all of them
C6_Witness ==
    /\ pc = "done"
    /\ IsScenarioA
    /\ self.stay_radius = 5
    /\ \E k \in DOMAIN input : Dist2(input[k], input[1]) = 5 * 5
    /\ Len(stay_areas) = 1
    /\ Len(stay_areas[1]) = ClusterLen

\* Scenario B: LineLen points outside the box, each one the same 10 m step
\* from the one before, with moving_threshold = 200
IsScenarioB ==
    /\ Len(input) = LineLen
    /\ OutsideZone(input)
    /\ \A k \in 2 .. Len(input) :
          /\ Dist2(input[k], input[k - 1]) = 10 * 10
          /\ input[k].x - input[k - 1].x = input[2].x - input[1].x
          /\ input[k].y - input[k - 1].y = input[2].y - input[1].y
    /\ self.moving_threshold = 200

\* the positions in the input of the retained points
Retained == {simplified_points[k].id : k \in DOMAIN simplified_points}

\* the latest retained position before k
LastRetainedBefore(k) ==
    LET before == {m \in Retained : m < k}
    IN  CHOOSE m \in before : \A n \in before : n <= m

\* 200 m or more from the latest retained point before it
ReachesThreshold(k) ==
    Dist2(input[k], input[LastRetainedBefore(k)])
        >= self.moving_threshold * self.moving_threshold

\* C7: in Scenario B the retained points are exactly the first point and each
\* point that is 200 m or more from the last retained point before it.
C7_ScenarioB ==
    (pc = "done" /\ IsScenarioB) =>
        /\ 1 \in Retained
        /\ \A k \in 2 .. Len(input) : k \in Retained <=> ReachesThreshold(k)

\* within `window` positions of an end of the sequence
NearAnEnd(k) == k <= window \/ k > Len(input) - window

\* C7 as amended: in Scenario B, when the segmenter returns no stay area, the
\* retained points are exactly the first point, each point within 5 positions
\* of the start or of the end of the sequence, and each other point that is
\* 200 m or more from the last retained point before it.
C7_ScenarioBWithEnds ==
    (pc = "done" /\ IsScenarioB /\ stay_areas = <<>>) =>
        /\ 1 \in Retained
        /\ \A k \in 2 .. Len(input) :
              k \in Retained <=> (NearAnEnd(k) \/ ReachesThreshold(k))

\* a finished Scenario B run without stay area that retained the points near
\* the two ends and, between them, the one that completes 200 m
C7_Witness ==
    /\ pc = "done"
    /\ IsScenarioB
    /\ stay_areas = <<>>
    /\ {1, 2, 3, 4, 5, 25, 45} \subseteq Retained
    /\ Retained \cap (6 .. 24) = {}
    /\ {LineLen - 4, LineLen} \subseteq Retained

\* Scenario C: the input turns by 90 degrees at position c and nowhere else
\* (every step before c is the same vector, every step after c is the same
\* vector, the two are perpendicular), c at least 5 positions from either end
IsCorner(c) ==
    /\ c > window /\ c <= Len(input) - window
    /\ LET a == <<input[2].x - input[1].x, input[2].y - input[1].y>>
           b == <<input[c + 1].x - input[c].x, input[c + 1].y - input[c].y>>
       IN  /\ a # <<0, 0>> /\ b # <<0, 0>>
           /\ a[1] * b[1] + a[2] * b[2] = 0
           /\ \A k \in 2 .. c :
                 <<input[k].x - input[k - 1].x, input[k].y - input[k - 1].y>> = a
           /\ \A k \in (c + 1) .. Len(input) :
                 <<input[k].x - input[k - 1].x, input[k].y - input[k - 1].y>> = b

\* a point retained before c is closer to c than moving_threshold
CloseToPrevious(c) ==
    /\ \E m \in Retained : m < c
    /\ Dist2(input[c], input[LastRetainedBefore(c)])
          < self.moving_threshold * self.moving_threshold

\* C8: in Scenario C, when the point at the turn is closer than
\* moving_threshold to the previously retained point, it is in the output.
C8_ScenarioC ==
    pc = "done" =>
        \A c \in DOMAIN input :
            (IsCorner(c) /\ CloseToPrevious(c)) => In(input[c], simplified_points)

\* C8 as amended: in Scenario C, when the whole input is outside the override
\* zone and the point at the turn is in no stay area, the point at the turn is
\* in the output, however close the previously retained point is.
C8_ScenarioCOutsideStays ==
    pc = "done" =>
        \A c \in DOMAIN input :
            (IsCorner(c) /\ OutsideZone(input) /\ AreasOf(input[c]) = {})
                => In(input[c], simplified_points)

\* a finished run that kept the point at the turn as a moving point closer
\* than moving_threshold to the last retained point, with another moving
\* point dropped
C8_Witness ==
    /\ pc = "done"
    /\ \E c \in DOMAIN input :
          /\ IsCorner(c)
          /\ OutsideZone(input)
          /\ AreasOf(input[c]) = {}
          /\ CloseToPrevious(c)
          /\ \E k \in DOMAIN route_log :
                route_log[k].id = c /\ route_log[k].by = "moving" /\ route_log[k].kept
          /\ In(input[c], simplified_points)
    /\ Routed("moving", FALSE)


Timed(p) == p.time # NoTime

\* C9: is_stay_area is true of a candidate iff it has at least 2 points and
\* either both its ends have timestamps at least min_stay_time apart, or an
\* end has no timestamp and it has at least 10 points.
C9_StayValidity ==
    \A e \in DOMAIN seg_log :
        LET area == seg_log[e].area
        IN  seg_log[e].valid <=>
              /\ Len(area) >= 2
              /\ \/ /\ Timed(area[1]) /\ Timed(Last(area))
                    /\ Last(area).time - area[1].time >= self.min_stay_time
                 \/ /\ ~Timed(area[1]) \/ ~Timed(Last(area))
                    /\ Len(area) >= 10

\* one run classified: a candidate lasting exactly min_stay_time (valid), a
\* candidate of one point (invalid), and a candidate of ten or more points
\* with an end without timestamp (valid)
C9_Witness ==
    /\ \E e \in DOMAIN seg_log :
          LET area == seg_log[e].area
          IN  /\ seg_log[e].valid
              /\ Timed(area[1]) /\ Timed(Last(area))
              /\ Last(area).time - area[1].time = self.min_stay_time
    /\ \E e \in DOMAIN seg_log : ~seg_log[e].valid /\ Len(seg_log[e].area) = 1
    /\ \E e \in DOMAIN seg_log :
          LET area == seg_log[e].area
          IN  seg_log[e].valid /\ Len(area) >= 10 /\ ~Timed(Last(area))

\* the position in s of the point with the identity of p
PosIn(p, s) == CHOOSE k \in DOMAIN s : s[k].id = p.id

\* r is made of points of s, in the order they have in s
IsSubsequence(r, s) ==
    /\ \A k \in DOMAIN r : In(r[k], s)
    /\ \A k, m \in DOMAIN r : k < m => PosIn(r[k], s) < PosIn(r[m], s)

\* C10: for max_stay_points >= 1 the result of simplify_stay_area is a
\* subsequence of the area with at most max_stay_points points: the area
\* itself when it is not longer than max_stay_points; else a point nearest to
\* the mean (1), [first, last] (2), [first, area[len // 2], last] (3 or more).
C10_StaySimplifier ==
    (last_area # <<>> /\ self.max_stay_points >= 1) =>
        LET n == self.max_stay_points
            c == Center(last_area)
        IN  /\ IsSubsequence(last_simplified, last_area)
            /\ Len(last_simplified) <= n
            /\ IF Len(last_area) <= n THEN last_simplified = last_area
               ELSE IF n = 1
               THEN /\ Len(last_simplified) = 1
                    /\ \A k \in DOMAIN last_area :
                          CDist2(last_simplified[1], c) <= CDist2(last_area[k], c)
               ELSE IF n = 2
               THEN last_simplified = <<last_area[1], Last(last_area)>>
               ELSE /\ last_simplified =
                         <<last_area[1], last_area[(Len(last_area) \div 2) + 1], Last(last_area)>>
                    /\ Cardinality(Ids(last_simplified)) = 3

\* an area of more than four points simplified with max_stay_points = 4
C10_Witness ==
    /\ self.max_stay_points = 4
    /\ Len(last_area) > 4
    /\ Len(last_simplified) = 3

\* C11: whichever points lack a timestamp, the pipeline never raises an
\* error; in particular a run inside the box whose first and last points
\* have timestamps and an interior point has none is reduced without error.
C11_NeverRaises == pc # "raised"

\* inside the override box, from the coordinates alone
InBox(p) == p.x >= 0 /\ p.x <= ZoneEast /\ p.y >= 0 /\ p.y <= ZoneNorth

\* the pre-pass is over and `points` is the zone-filtered sequence
Filtered == pc \in {"seg_outer", "seg_scan", "seg_classify", "route", "done"}

\* every input point outside the box is in the filtered sequence
OutsideRetained == \A k \in DOMAIN input : ~InBox(input[k]) => In(input[k], points)

SameRun(a, b) == \A q \in DOMAIN input : (a <= q /\ q <= b) => InBox(input[q])

C13_RerunNeverGrows ==
    (pc = "done" /\ run_counts # <<>>) => Len(simplified_points) <= run_counts[1]

\* a second run that ended with fewer points than the first, which itself
\* had dropped points
C13_Witness ==
    /\ pc = "done"
    /\ run_counts # <<>>
    /\ Len(simplified_points) < run_counts[1]
    /\ Len(simplified_points) >= 2

InSegmenter == pc \in {"seg_outer", "seg_scan", "seg_classify"}

\* an iteration of the outer loop ends: i has advanced by at least 2 after a
\* valid stay area, by at least 1 after an invalid candidate, and not beyond
\* the end of the sequence
OuterLoopAdvances ==
    Len(seg_log') = Len(seg_log) + 1 =>
        /\ i' >= i + (IF Last(seg_log').valid THEN 2 ELSE 1)
        /\ i' <= Len(points)

\* an iteration of the inner loop that goes on: j has advanced, by at most the
\* lookahead, and not beyond the end of the sequence
InnerLoopAdvances ==
    (pc = "seg_scan" /\ pc' = "seg_scan") =>
        (j < j' /\ j' <= j + MaxLookahead /\ j' <= Len(points))

\* C14: identify_stay_areas_improved terminates; every iteration of its outer
\* loop advances i, by at least 2 after a valid stay area and by at least 1
\* after an invalid candidate, and the lookahead advances a bounded index.
C14_SegmenterTerminates ==
    /\ [][OuterLoopAdvances /\ InnerLoopAdvances]_vars
    /\ InSegmenter ~> (pc = "route")

\* the segmenter has returned after a valid stay area of two points and an
\* invalid candidate whose walk ended where it began
C14_Witness ==
    /\ pc = "route"
    /\ \E e \in DOMAIN seg_log : seg_log[e].valid /\ seg_log[e].stop = seg_log[e].start + 2
    /\ \E e \in DOMAIN seg_log : ~seg_log[e].valid /\ seg_log[e].walk_end = seg_log[e].start

\* any two points of s that both have a timestamp are in timestamp order
InTimeOrder(s) ==
    \A k, m \in DOMAIN s :
        (k < m /\ s[k].time # NoTime /\ s[m].time # NoTime) => s[k].time <= s[m].time

\* any two points of s are in the order they have in the filtered sequence
InFilteredOrder(s) ==
    \A k, m \in DOMAIN s : k < m => PosIn(s[k], points) < PosIn(s[m], points)

\* C15: the output is the retained points, in non-decreasing timestamp order
\* if the first of them, in emission order, has a timestamp, and else in the
\* order of the zone-filtered sequence.
C15_MergeOrder ==
    [][(pc = "route" /\ pc' = "done" /\ simplified_points # <<>>) =>
          /\ Ids(simplified_points') = Ids(simplified_points)
          /\ Len(simplified_points') = Len(simplified_points)
          /\ IF simplified_points[1].time # NoTime
             THEN InTimeOrder(simplified_points')
             ELSE InFilteredOrder(simplified_points')]_vars

\* a finished run whose first output point has a timestamp and whose output
\* is not in the order of the filtered sequence: the sort moved a point
C15_Witness ==
    /\ pc = "done"
    /\ Len(simplified_points) >= 3
    /\ simplified_points[1].time # NoTime
    /\ ~InFilteredOrder(simplified_points)

\* points p and p + 1 (0-based) are closer than 10 m
ClosePair(p) == p + 1 < Len(points) /\ Dist2(At(points, p), At(points, p + 1)) < 10 * 10

\* the smallest index p >= s such that (p, p + 1) is a close pair, or the
\* last index if there is none
FirstCloseFrom(s) ==
    IF \E p \in s .. (Len(points) - 1) : ClosePair(p)
    THEN CHOOSE p \in s .. (Len(points) - 1) :
            ClosePair(p) /\ \A q \in s .. (p - 1) : ~ClosePair(q)
    ELSE Len(points) - 1

\* the moving segments that hold the point of index s
SegmentsWith(s) == {m \in DOMAIN moving_segments : In(At(points, s), moving_segments[m])}

\* C16: for every closed candidate that is not a valid stay, starting at s,
\* with p the first index from s on whose next point is closer than 10 m (or
\* the last index), exactly the points s..p are one moving segment, also
\* when p = s.
C16_InvalidBecomesSegment ==
    \A e \in DOMAIN seg_log :
        ~seg_log[e].valid =>
            LET s == seg_log[e].start
                p == FirstCloseFrom(s)
            IN  /\ Cardinality(SegmentsWith(s)) = 1
                /\ \A m \in SegmentsWith(s) : moving_segments[m] = Slice(points, s, p + 1)

\* C16 as amended: the same when p > s; when p = s no moving segment is
\* emitted and the point s is in no moving segment.
C16_InvalidBecomesSegmentUnlessLone ==
    \A e \in DOMAIN seg_log :
        ~seg_log[e].valid =>
            LET s == seg_log[e].start
                p == FirstCloseFrom(s)
            IN  IF p > s
                THEN /\ Cardinality(SegmentsWith(s)) = 1
                     /\ \A m \in SegmentsWith(s) : moving_segments[m] = Slice(points, s, p + 1)
                ELSE SegmentsWith(s) = {}

\* the segmenter has closed an invalid candidate whose segment has three
\* points or more, and one whose walk ended where it began
C16_Witness ==
    /\ \E e \in DOMAIN seg_log :
          ~seg_log[e].valid /\ FirstCloseFrom(seg_log[e].start) >= seg_log[e].start + 2
    /\ \E e \in DOMAIN seg_log :
          ~seg_log[e].valid /\ FirstCloseFrom(seg_log[e].start) = seg_log[e].start
    /\ Len(moving_segments) >= 1

\* the point of index q is farther than stay_radius from the mean of the
\* points now in the candidate
FarFromMean(q) == ~WithinOfCenter(At(points, q), Center(potential_stay_area), self.stay_radius)

\* the points j .. j+9 that exist and are within stay_radius of that mean
Returning == {q \in j .. (j + 9) : q < Len(points) /\ ~FarFromMean(q)}

\* C17: when point j is farther than stay_radius from the mean M of the
\* candidate, the points j..j+9 (fewer at the end of the input) are tested
\* against M: if k is the first of them within stay_radius, the points j..k
\* are appended and the scan resumes at k+1; if none is, the candidate is
\* closed as it is, with no point of index >= j.
C17_BoundedLookahead ==
    [][(pc = "seg_scan" /\ j < Len(points) /\ FarFromMean(j)) =>
          IF Returning # {}
          THEN LET k == MinOf(Returning)
               IN  /\ potential_stay_area' = potential_stay_area \o Slice(points, j, k + 1)
                   /\ j' = k + 1
                   /\ pc' = "seg_scan"
          ELSE /\ pc' = "seg_classify"
               /\ potential_stay_area' = potential_stay_area
               /\ \A m \in DOMAIN potential_stay_area :
                     PosIn(potential_stay_area[m], points) - 1 < j]_vars

\* the segmenter has returned a candidate that holds an excursion (two of its
\* points are more than twice stay_radius apart) and has closed a candidate
\* before the end of the sequence
C17_Witness ==
    /\ pc = "route"
    /\ \E e \in DOMAIN seg_log :
          \E a, b \in DOMAIN seg_log[e].area :
              Dist2(seg_log[e].area[a], seg_log[e].area[b])
                  > 4 * self.stay_radius * self.stay_radius
    /\ \E e \in DOMAIN seg_log : seg_log[e].stop < Len(points)

\* the directions v and w differ by 30 degrees or less: w is on the side of v
\* and the tangent of the angle between them is at most 1 / sqrt(3)
WithinThirtyDegrees(v, w) ==
    LET dot   == v[1] * w[1] + v[2] * w[2]
        cross == v[1] * w[2] - v[2] * w[1]
    IN  dot > 0 /\ 3 * cross * cross <= dot * dot

\* the point of filtered index p (0-based) is a turning point
TurningAt(p) ==
    \/ p < 5
    \/ p >= Len(points) - 5
    \/ ~WithinThirtyDegrees(BearingVec(At(points, p - 5), At(points, p)),
                            BearingVec(At(points, p), At(points, p + 5)))

\* the moving-point rule for the point of filtered index p, against the
\* output built so far
KeepRule(p) ==
    \/ simplified_points = <<>>
    \/ Dist2(At(points, p), Last(simplified_points))
          >= self.moving_threshold * self.moving_threshold
    \/ TurningAt(p)

BearingBefore(p) == BearingVec(At(points, p - 5), At(points, p))

BearingAfter(p) == BearingVec(At(points, p), At(points, p + 5))

\* the k-th routed point is a moving point away from both ends
InteriorMoving(k) ==
    route_log[k].by = "moving" /\ k > 5 /\ k <= Len(points) - 5

StartAllowed(s, e) ==
    IF e = 0 THEN s = 0
    ELSE IF seg_log[e].valid
    THEN s = PosIn(Last(seg_log[e].area), points)
    ELSE LET p == FirstCloseFrom(seg_log[e].start)
         IN  ClosePair(p) /\ s = p + 1

\* C19: every candidate, the one in progress included, starts at index 0, or
\* right after the previous valid stay area, or at p + 1 where (p, p + 1) is
\* the first pair closer than 10 m from the start of the previous invalid
\* candidate, and there is none after an invalid candidate without such a
\* pair; every returned stay area is one of these candidates.
C19_StayAttemptStarts ==
    /\ \A e \in DOMAIN seg_log :
          /\ seg_log[e].area[1] = At(points, seg_log[e].start)
          /\ StartAllowed(seg_log[e].start, e - 1)
    /\ pc \in {"seg_scan", "seg_classify"} =>
          /\ potential_stay_area[1] = At(points, i)
          /\ StartAllowed(i, Len(seg_log))
    /\ \A a \in DOMAIN stay_areas :
          \E e \in DOMAIN seg_log : seg_log[e].valid /\ seg_log[e].area = stay_areas[a]

\* the segmenter has returned after a candidate that followed a valid stay
\* area, one that followed an invalid candidate whose walk moved on, and a
\* last invalid candidate with no close pair after its start
C19_Witness ==
    /\ pc = "route"
    /\ \E e \in DOMAIN seg_log : e > 1 /\ seg_log[e - 1].valid
    /\ \E e \in DOMAIN seg_log :
          e > 1 /\ ~seg_log[e - 1].valid /\ seg_log[e].start > seg_log[e - 1].start + 1
    /\ LET last == Last(seg_log)
       IN  ~last.valid /\ ~ClosePair(FirstCloseFrom(last.start))

====
